---- MODULE Spec2Model ----
(***************************************************************************)
(* A model of the multi-core CPU scheduling simulator                      *)
(* (src/cpu_scheduler.cpp): the EnhancedCPUScheduler object, its process   *)
(* repository operations and its four scheduling policies.                 *)
(*                                                                         *)
(* Representation choices:                                                 *)
(*  - a std::vector is a sequence; core c (0-based in the code) owns       *)
(*    element c + 1 of ganttCharts, coreTime and coreQueues;               *)
(*  - a Process* held in a round-robin queue is the 1-based position of    *)
(*    the process in the collection;                                       *)
(*  - a double holding a power is counted in tenths of a watt              *)
(*    (powerConsumption = burstTime * 0.1 is burstTime tenths); a double   *)
(*    holding a quotient of two ints is the reduced fraction <<n, d>>;     *)
(*  - a policy run is a sequence of steps: the call (reset, sort, local    *)
(*    set-up), one step per loop iteration, and the finalization.          *)
(*                                                                         *)
(* SpecThreads models the build of src/unnamed/part_000, whose repository  *)
(* operations take std::lock_guard<std::mutex> on schedulerMutex, called   *)
(* from several threads.                                                   *)
(***************************************************************************)
EXTENDS Integers, Sequences, FiniteSets, TLC

VARIABLES eng, ref, last, threads

vars == <<eng, ref, last, threads>>

(***************************************************************************)
(* Bounds of the model.                                                    *)
(***************************************************************************)
MaxProcs == 3      \* processes a caller adds one by one with addProcess
MaxSlices == 3     \* slices a core may log beyond those a run that ends can need
NumThreads == 2    \* threads that call the repository of one engine

DefaultCores == 4  \* EnhancedCPUScheduler(int cores = 4), main's scheduler(4)
DefaultPriority == 128

(***************************************************************************)
(* Arithmetic helpers.                                                     *)
(***************************************************************************)
Abs(x) == IF x < 0 THEN -x ELSE x

RECURSIVE GCD(_, _)
GCD(a, b) == IF b = 0 THEN a ELSE GCD(b, a % b)

\* The double a / b (b > 0) as a reduced fraction.
Quot(a, b) ==
    LET g == GCD(Abs(a), b)
    IN  <<a \div g, b \div g>>

RECURSIVE SumSeq(_)
SumSeq(s) == IF s = <<>> THEN 0 ELSE Head(s) + SumSeq(Tail(s))

\* A variant of min_element that takes the first position whatever it holds;
\* C17 tells it apart.
min_element_Begin(v) == 0

\* A variant of min_element that takes the last minimum; C12 tells it apart.
min_element_Last(v) ==
    IF v = <<>> THEN 0
    ELSE (CHOOSE i \in 1..Len(v) :
              /\ \A j \in 1..Len(v) : v[i] <= v[j]
              /\ \A j \in (i + 1)..Len(v) : v[j] > v[i]) - 1

\* std::min_element(...) - begin(): the 0-based position of the first minimum;
\* on an empty range end() - begin() = 0.
min_element(v) ==
    IF v = <<>> THEN 0
    ELSE (CHOOSE i \in 1..Len(v) :
              /\ \A j \in 1..Len(v) : v[i] <= v[j]
              /\ \A j \in 1..(i - 1) : v[j] > v[i]) - 1

\* A variant of max_element that takes the first value; C8 tells it apart.
max_element_First(v) == v[1]

\* *std::max_element(...): the largest value of a non-empty vector.
max_element(v) == CHOOSE x \in {v[i] : i \in 1..Len(v)} : \A j \in 1..Len(v) : v[j] <= x

(***************************************************************************)
(* struct Process and struct SystemMetrics.                                *)
(***************************************************************************)
Process(processId, bt, prio, dl, rt) ==
    [id |-> processId, burstTime |-> bt, priority |-> prio, deadline |-> dl,
     waitingTime |-> 0, turnaroundTime |-> 0, remainingTime |-> bt,
     coreId |-> -1, isRealTime |-> rt, powerConsumption |-> bt]

SystemMetrics ==
    [totalPowerConsumption |-> 0, averagePowerPerCore |-> <<0, 1>>,
     deadlineMisses |-> 0, totalProcesses |-> 0, throughput |-> <<0, 1>>]

\* A variant of calculateMetrics that divides in int; C9 tells it apart.
calculateMetrics_IntegerDivision(m, numCores, totalTime) ==
    LET m1 == IF numCores > 0
              THEN [m EXCEPT !.averagePowerPerCore = Quot(m.totalPowerConsumption, numCores)]
              ELSE m
    IN  IF totalTime > 0
        THEN [m1 EXCEPT !.throughput = <<m1.totalProcesses \div totalTime, 1>>]
        ELSE m1

\* A variant of calculateMetrics that leaves averagePowerPerCore alone; C16
\* tells it apart.
calculateMetrics_NoAverage(m, numCores, totalTime) ==
    IF totalTime > 0
    THEN [m EXCEPT !.throughput = Quot(m.totalProcesses, totalTime)]
    ELSE m

calculateMetrics(m, numCores, totalTime) ==
    LET m1 == IF numCores > 0
              THEN [m EXCEPT !.averagePowerPerCore = Quot(m.totalPowerConsumption, numCores)]
              ELSE m
    IN  IF totalTime > 0
        THEN [m1 EXCEPT !.throughput = Quot(m1.totalProcesses, totalTime)]
        ELSE m1

(***************************************************************************)
(* The locals of a policy invocation, as they are when no policy has run   *)
(* since the repository was last changed.  After a run returns, coreTime,  *)
(* totalTime and timeQuantum keep the values the run ended with.           *)
(***************************************************************************)
NoFrame(e) ==
    [e EXCEPT !.pc = "idle", !.timeQuantum = 0, !.sortedProcesses = <<>>,
              !.coreTime = <<>>, !.idx = 0, !.coreQueues = <<>>, !.core = 0,
              !.active = FALSE, !.totalTime = 0]

\* EnhancedCPUScheduler(int cores): numCores(cores), ganttCharts.resize(numCores).
EnhancedCPUScheduler(cores) ==
    [processes |-> <<>>, ganttCharts |-> [c \in 1..cores |-> <<>>],
     numCores |-> cores, metrics |-> SystemMetrics,
     pc |-> "idle", timeQuantum |-> 0, sortedProcesses |-> <<>>, coreTime |-> <<>>,
     idx |-> 0, coreQueues |-> <<>>, core |-> 0, active |-> FALSE, totalTime |-> 0]

(***************************************************************************)
(* The process repository.                                                 *)
(***************************************************************************)
\* A variant of addProcess that inserts at the front; C25 tells it apart.
addProcess_AtFront(e, p) == [e EXCEPT !.processes = <<p>> \o @]

addProcess(e, p) == [e EXCEPT !.processes = Append(@, p)]

\* A variant of clearProcesses that keeps the timelines; C5 tells it apart.
clearProcesses_KeepsCharts(e) ==
    [e EXCEPT !.processes = <<>>, !.metrics = SystemMetrics]

clearProcesses(e) ==
    [e EXCEPT !.processes = <<>>,
              !.ganttCharts = [c \in DOMAIN @ |-> <<>>],
              !.metrics = SystemMetrics]

\* A variant of resize that only grows the vector; C14 tells it apart.
resize_OnlyGrows(charts, n) ==
    [c \in 1..(IF n > Len(charts) THEN n ELSE Len(charts)) |->
        IF c <= Len(charts) THEN charts[c] ELSE <<>>]

\* ganttCharts.resize(n): keeps the first n charts and appends empty ones.
resize(charts, n) ==
    [c \in 1..n |-> IF c <= Len(charts) THEN charts[c] ELSE <<>>]

\* reconfigure(newNumCores); a negative count makes resize throw
\* std::length_error after numCores is assigned, and nothing catches it.
reconfigure(e, newNumCores) ==
    LET c == [clearProcesses(e) EXCEPT !.numCores = newNumCores]
    IN  IF newNumCores < 0
        THEN [c EXCEPT !.pc = "aborted"]
        ELSE [c EXCEPT !.ganttCharts = resize(@, newNumCores)]

\* A variant of resetProcess that keeps the coreId of the run before; C24
\* tells it apart.
resetProcess_KeepsCore(p) ==
    [p EXCEPT !.waitingTime = 0, !.turnaroundTime = 0, !.remainingTime = p.burstTime]

resetProcess(p) ==
    [p EXCEPT !.waitingTime = 0, !.turnaroundTime = 0,
              !.remainingTime = p.burstTime, !.coreId = -1]

\* A variant of resetProcessesState that keeps the metrics of the run before;
\* C2 tells it apart.
resetProcessesState_KeepsMetrics(e) ==
    [e EXCEPT !.ganttCharts = [c \in DOMAIN e.ganttCharts |-> <<>>],
              !.processes = [i \in DOMAIN e.processes |-> resetProcess(e.processes[i])]]

\* A variant of resetProcessesState that resets the metrics except for the
\* count of deadline misses; C29 tells it apart.
resetProcessesState_KeepsDeadlineMisses(e) ==
    [e EXCEPT !.ganttCharts = [c \in DOMAIN e.ganttCharts |-> <<>>],
              !.processes = [i \in DOMAIN e.processes |-> resetProcess(e.processes[i])],
              !.metrics = [SystemMetrics EXCEPT !.deadlineMisses = e.metrics.deadlineMisses]]

resetProcessesState(e) ==
    [e EXCEPT !.ganttCharts = [c \in DOMAIN e.ganttCharts |-> <<>>],
              !.processes = [i \in DOMAIN e.processes |-> resetProcess(e.processes[i])],
              !.metrics = SystemMetrics]

isEmpty(e) == e.processes = <<>>

(***************************************************************************)
(* Shared pieces of the policies.                                          *)
(***************************************************************************)
\* A variant of ZeroTimes that starts every core at time 1; C13 tells it apart.
ZeroTimes_FromOne(numCores) == [c \in 1..numCores |-> 1]

\* std::vector<int> coreTime(numCores, 0)
ZeroTimes(numCores) == [c \in 1..numCores |-> 0]

\* std::find_if(processes.begin(), processes.end(), p.id == id): the position
\* of the first process carrying the id, 0 for processes.end().
find_if(processes, id) ==
    IF \E i \in 1..Len(processes) : processes[i].id = id
    THEN CHOOSE i \in 1..Len(processes) :
             /\ processes[i].id = id
             /\ \A j \in 1..(i - 1) : processes[j].id # id
    ELSE 0

\* The orders std::sort may leave a vector in, as sequences of positions of
\* the input: ascending in the key, equal keys in any order (std::sort is
\* not a stable sort).
\* A variant of SortOrders that sorts descending in the key; C20 tells it apart.
RECURSIVE SortOrders_Descending(_, _)
SortOrders_Descending(S, key) ==
    IF S = {} THEN {<<>>}
    ELSE UNION {{<<i>> \o t : t \in SortOrders_Descending(S \ {i}, key)} :
                    i \in {m \in S : \A j \in S : key[m] >= key[j]}}

RECURSIVE SortOrders(_, _)
SortOrders(S, key) ==
    IF S = {} THEN {<<>>}
    ELSE UNION {{<<i>> \o t : t \in SortOrders(S \ {i}, key)} :
                    i \in {m \in S : \A j \in S : key[m] <= key[j]}}

PriorityOrders(e) ==
    SortOrders(DOMAIN e.processes, [i \in DOMAIN e.processes |-> e.processes[i].priority])

DeadlineOrders(e) ==
    SortOrders(DOMAIN e.processes, [i \in DOMAIN e.processes |-> e.processes[i].deadline])

\* int totalTime = coreTime.empty() ? 0 : *max_element(...);
\* metrics.totalProcesses = processes.size(); metrics.calculateMetrics(...)
\* and the return to the caller.
finalize(e) ==
    LET totalTime == IF e.coreTime = <<>> THEN 0 ELSE max_element(e.coreTime)
        m == [e.metrics EXCEPT !.totalProcesses = Len(e.processes)]
    IN  [e EXCEPT !.metrics = calculateMetrics(m, e.numCores, totalTime),
                  !.totalTime = totalTime,
                  !.pc = "idle", !.sortedProcesses = <<>>, !.idx = 0,
                  !.coreQueues = <<>>, !.core = 0, !.active = FALSE]

(***************************************************************************)
(* multiCoreFCFS.                                                          *)
(***************************************************************************)
multiCoreFCFS(e) ==
    [resetProcessesState(e) EXCEPT !.pc = "fcfs", !.coreTime = ZeroTimes(e.numCores),
                                   !.idx = 1, !.timeQuantum = 0, !.totalTime = 0]

\* A variant of fcfsBody that reads the waiting time after the burst is added
\* to the core; C1 tells it apart.
fcfsBody_WaitsForItself(e) ==
    LET bestCore == min_element(e.coreTime)
        proc == e.processes[e.idx]
        waitingTime == e.coreTime[bestCore + 1]
    IN  IF e.coreTime = <<>> THEN [e EXCEPT !.pc = "aborted"]
        ELSE [e EXCEPT !.processes[e.idx].coreId = bestCore,
                       !.processes[e.idx].waitingTime = waitingTime + proc.burstTime,
                       !.processes[e.idx].turnaroundTime = waitingTime + proc.burstTime,
                       !.ganttCharts[bestCore + 1] = Append(@, <<proc.id, proc.burstTime>>),
                       !.coreTime[bestCore + 1] = @ + proc.burstTime,
                       !.metrics.totalPowerConsumption = @ + proc.powerConsumption,
                       !.idx = @ + 1]

\* One iteration of for (auto &proc : processes).  With no core the read of
\* coreTime[bestCore] is out of bounds of an empty vector (a null data
\* pointer): the program crashes.
fcfsBody(e) ==
    LET bestCore == min_element(e.coreTime)
        proc == e.processes[e.idx]
        waitingTime == e.coreTime[bestCore + 1]
    IN  IF e.coreTime = <<>> THEN [e EXCEPT !.pc = "aborted"]
        ELSE [e EXCEPT !.processes[e.idx].coreId = bestCore,
                       !.processes[e.idx].waitingTime = waitingTime,
                       !.processes[e.idx].turnaroundTime = waitingTime + proc.burstTime,
                       !.ganttCharts[bestCore + 1] = Append(@, <<proc.id, proc.burstTime>>),
                       !.coreTime[bestCore + 1] = @ + proc.burstTime,
                       !.metrics.totalPowerConsumption = @ + proc.powerConsumption,
                       !.idx = @ + 1]

(***************************************************************************)
(* priorityScheduling.                                                     *)
(***************************************************************************)
\* A variant of priorityScheduling that sorts the collection itself; C26 tells
\* it apart.
priorityScheduling_SortsInPlace(e, order) ==
    LET r == resetProcessesState(e)
        sorted == [k \in 1..Len(order) |-> r.processes[order[k]]]
    IN  [r EXCEPT !.pc = "priority",
                  !.processes = sorted,
                  !.sortedProcesses = sorted,
                  !.coreTime = ZeroTimes(e.numCores),
                  !.idx = 1, !.timeQuantum = 0, !.totalTime = 0]

priorityScheduling(e, order) ==
    LET r == resetProcessesState(e)
    IN  [r EXCEPT !.pc = "priority",
                  !.sortedProcesses = [k \in 1..Len(order) |-> r.processes[order[k]]],
                  !.coreTime = ZeroTimes(e.numCores),
                  !.idx = 1, !.timeQuantum = 0, !.totalTime = 0]

\* A variant of priorityBody that logs the slice on the core after the chosen
\* one; C18 tells it apart.
priorityBody_SliceOnNextCore(e) ==
    LET bestCore == min_element(e.coreTime)
        nextCore == (bestCore + 1) % e.numCores
        it == find_if(e.processes, e.sortedProcesses[e.idx].id)
        p == e.processes[it]
    IN  IF it = 0 THEN [e EXCEPT !.idx = @ + 1]
        ELSE IF e.coreTime = <<>> THEN [e EXCEPT !.pc = "aborted"]
        ELSE [e EXCEPT !.processes[it].coreId = bestCore,
                       !.processes[it].waitingTime = e.coreTime[bestCore + 1],
                       !.processes[it].turnaroundTime = e.coreTime[bestCore + 1] + p.burstTime,
                       !.ganttCharts[nextCore + 1] = Append(@, <<p.id, p.burstTime>>),
                       !.coreTime[bestCore + 1] = @ + p.burstTime,
                       !.metrics.totalPowerConsumption = @ + p.powerConsumption,
                       !.idx = @ + 1]

\* A variant of priorityBody in which a process waits until every core is
\* free; C30 tells it apart.
priorityBody_WaitsForAllCores(e) ==
    LET bestCore == min_element(e.coreTime)
        it == find_if(e.processes, e.sortedProcesses[e.idx].id)
        p == e.processes[it]
    IN  IF it = 0 THEN [e EXCEPT !.idx = @ + 1]
        ELSE IF e.coreTime = <<>> THEN [e EXCEPT !.pc = "aborted"]
        ELSE [e EXCEPT !.processes[it].coreId = bestCore,
                       !.processes[it].waitingTime = max_element(e.coreTime),
                       !.processes[it].turnaroundTime = max_element(e.coreTime) + p.burstTime,
                       !.ganttCharts[bestCore + 1] = Append(@, <<p.id, p.burstTime>>),
                       !.coreTime[bestCore + 1] = @ + p.burstTime,
                       !.metrics.totalPowerConsumption = @ + p.powerConsumption,
                       !.idx = @ + 1]

priorityBody(e) ==
    LET bestCore == min_element(e.coreTime)
        it == find_if(e.processes, e.sortedProcesses[e.idx].id)
        p == e.processes[it]
    IN  IF it = 0 THEN [e EXCEPT !.idx = @ + 1]
        ELSE IF e.coreTime = <<>> THEN [e EXCEPT !.pc = "aborted"]
        ELSE [e EXCEPT !.processes[it].coreId = bestCore,
                       !.processes[it].waitingTime = e.coreTime[bestCore + 1],
                       !.processes[it].turnaroundTime = e.coreTime[bestCore + 1] + p.burstTime,
                       !.ganttCharts[bestCore + 1] = Append(@, <<p.id, p.burstTime>>),
                       !.coreTime[bestCore + 1] = @ + p.burstTime,
                       !.metrics.totalPowerConsumption = @ + p.powerConsumption,
                       !.idx = @ + 1]

(***************************************************************************)
(* edfScheduling.                                                          *)
(***************************************************************************)
edfScheduling(e, order) ==
    LET r == resetProcessesState(e)
    IN  [r EXCEPT !.pc = "edf",
                  !.sortedProcesses = [k \in 1..Len(order) |-> r.processes[order[k]]],
                  !.coreTime = ZeroTimes(e.numCores),
                  !.idx = 1, !.timeQuantum = 0, !.totalTime = 0]

\* A variant of edfBody that counts a miss without the deadline > 0 test;
\* C10 tells it apart.
edfBody_CountsNoDeadline(e) ==
    LET bestCore == min_element(e.coreTime)
        it == find_if(e.processes, e.sortedProcesses[e.idx].id)
        p == e.processes[it]
        turnaroundTime == e.coreTime[bestCore + 1] + p.burstTime
        missed == turnaroundTime > p.deadline
    IN  IF it = 0 THEN [e EXCEPT !.idx = @ + 1]
        ELSE IF e.coreTime = <<>> THEN [e EXCEPT !.pc = "aborted"]
        ELSE [e EXCEPT !.processes[it].coreId = bestCore,
                       !.processes[it].waitingTime = e.coreTime[bestCore + 1],
                       !.processes[it].turnaroundTime = turnaroundTime,
                       !.metrics.deadlineMisses = IF missed THEN @ + 1 ELSE @,
                       !.ganttCharts[bestCore + 1] = Append(@, <<p.id, p.burstTime>>),
                       !.coreTime[bestCore + 1] = @ + p.burstTime,
                       !.metrics.totalPowerConsumption = @ + p.powerConsumption,
                       !.idx = @ + 1]

edfBody(e) ==
    LET bestCore == min_element(e.coreTime)
        it == find_if(e.processes, e.sortedProcesses[e.idx].id)
        p == e.processes[it]
        turnaroundTime == e.coreTime[bestCore + 1] + p.burstTime
        missed == p.deadline > 0 /\ turnaroundTime > p.deadline
    IN  IF it = 0 THEN [e EXCEPT !.idx = @ + 1]
        ELSE IF e.coreTime = <<>> THEN [e EXCEPT !.pc = "aborted"]
        ELSE [e EXCEPT !.processes[it].coreId = bestCore,
                       !.processes[it].waitingTime = e.coreTime[bestCore + 1],
                       !.processes[it].turnaroundTime = turnaroundTime,
                       !.metrics.deadlineMisses = IF missed THEN @ + 1 ELSE @,
                       !.ganttCharts[bestCore + 1] = Append(@, <<p.id, p.burstTime>>),
                       !.coreTime[bestCore + 1] = @ + p.burstTime,
                       !.metrics.totalPowerConsumption = @ + p.powerConsumption,
                       !.idx = @ + 1]

(***************************************************************************)
(* multiCoreRoundRobin.                                                    *)
(***************************************************************************)
\* A variant of Min that never gives less than 1; C21 tells it apart.
Min_AtLeastOne(a, b) == IF a < b THEN (IF a < 1 THEN 1 ELSE a) ELSE (IF b < 1 THEN 1 ELSE b)

\* A variant of Min that takes its second argument; C22 tells it apart.
Min_Second(a, b) == b

\* A variant of Min that takes its first argument; C7 tells it apart.
Min_First(a, b) == a

Min(a, b) == IF a < b THEN a ELSE b

\* The control flow between two slices: while (active) { active = false;
\* for (core = 0; ...) }, and the iterations of the for loop whose queue is
\* empty, which only count core up.  It ends at the next core with a process
\* queued, or with core = numCores and active false, where the while ends.
RECURSIVE rrSkip(_)
rrSkip(e) ==
    IF e.core < e.numCores
    THEN IF e.coreQueues[e.core + 1] = <<>>
         THEN rrSkip([e EXCEPT !.core = @ + 1])
         ELSE e
    ELSE IF e.active
         THEN rrSkip([e EXCEPT !.active = FALSE, !.core = 0])
         ELSE e

\* A variant of multiCoreRoundRobin that queues the process at position i on
\* core (i + 1) % numCores; C11 tells it apart.
multiCoreRoundRobin_ShiftedQueues(e, timeQuantum) ==
    LET r == resetProcessesState(e)
        n == Len(e.processes)
    IN  IF e.numCores = 0 /\ n > 0 THEN [r EXCEPT !.pc = "aborted"]
        ELSE rrSkip(
             [r EXCEPT !.pc = "rr", !.timeQuantum = timeQuantum,
                       !.coreQueues = [c \in 1..e.numCores |->
                           SelectSeq([i \in 1..n |-> i],
                                     LAMBDA i : i % e.numCores = c - 1)],
                       !.coreTime = ZeroTimes(e.numCores),
                       !.active = TRUE, !.core = e.numCores,
                       !.idx = 0, !.totalTime = 0])

\* The call up to the first slice: reset, the locals and
\* coreQueues[i % numCores].push(&processes[i]).  With no core and a process
\* to place, i % numCores divides by zero: the program crashes.
multiCoreRoundRobin(e, timeQuantum) ==
    LET r == resetProcessesState(e)
        n == Len(e.processes)
    IN  IF e.numCores = 0 /\ n > 0 THEN [r EXCEPT !.pc = "aborted"]
        ELSE rrSkip(
             [r EXCEPT !.pc = "rr", !.timeQuantum = timeQuantum,
                       !.coreQueues = [c \in 1..e.numCores |->
                           SelectSeq([i \in 1..n |-> i],
                                     LAMBDA i : (i - 1) % e.numCores = c - 1)],
                       !.coreTime = ZeroTimes(e.numCores),
                       !.active = TRUE, !.core = e.numCores,
                       !.idx = 0, !.totalTime = 0])

\* A variant of rrBody that puts an unfinished process back at the front of
\* the queue; C23 tells it apart.
rrBody_BackToFront(e) ==
    LET c == e.core + 1
        queue == e.coreQueues[c]
        proc == Head(queue)
        executeTime == Min(e.timeQuantum, e.processes[proc].remainingTime)
        remainingTime == e.processes[proc].remainingTime - executeTime
        coreTime == e.coreTime[c] + executeTime
    IN  IF remainingTime > 0
        THEN [e EXCEPT !.active = TRUE,
                       !.ganttCharts[c] = Append(@, <<e.processes[proc].id, executeTime>>),
                       !.processes[proc].remainingTime = remainingTime,
                       !.coreTime[c] = coreTime,
                       !.coreQueues[c] = queue,
                       !.core = @ + 1]
        ELSE [e EXCEPT !.active = TRUE,
                       !.ganttCharts[c] = Append(@, <<e.processes[proc].id, executeTime>>),
                       !.processes[proc].remainingTime = remainingTime,
                       !.coreTime[c] = coreTime,
                       !.coreQueues[c] = Tail(queue),
                       !.processes[proc].coreId = e.core,
                       !.processes[proc].turnaroundTime = coreTime,
                       !.processes[proc].waitingTime = coreTime - e.processes[proc].burstTime,
                       !.metrics.totalPowerConsumption = @ + e.processes[proc].powerConsumption,
                       !.core = @ + 1]

\* A variant of rrBody that gives a finished process its turnaround time as
\* waiting time; C31 tells it apart.
rrBody_WaitingIsTurnaround(e) ==
    LET c == e.core + 1
        queue == e.coreQueues[c]
        proc == Head(queue)
        executeTime == Min(e.timeQuantum, e.processes[proc].remainingTime)
        remainingTime == e.processes[proc].remainingTime - executeTime
        coreTime == e.coreTime[c] + executeTime
    IN  IF remainingTime > 0
        THEN [e EXCEPT !.active = TRUE,
                       !.ganttCharts[c] = Append(@, <<e.processes[proc].id, executeTime>>),
                       !.processes[proc].remainingTime = remainingTime,
                       !.coreTime[c] = coreTime,
                       !.coreQueues[c] = Append(Tail(queue), proc),
                       !.core = @ + 1]
        ELSE [e EXCEPT !.active = TRUE,
                       !.ganttCharts[c] = Append(@, <<e.processes[proc].id, executeTime>>),
                       !.processes[proc].remainingTime = remainingTime,
                       !.coreTime[c] = coreTime,
                       !.coreQueues[c] = Tail(queue),
                       !.processes[proc].coreId = e.core,
                       !.processes[proc].turnaroundTime = coreTime,
                       !.processes[proc].waitingTime = coreTime,
                       !.metrics.totalPowerConsumption = @ + e.processes[proc].powerConsumption,
                       !.core = @ + 1]

\* The body of if (!coreQueues[core].empty()) for the core the run is at.
rrBody(e) ==
    LET c == e.core + 1
        queue == e.coreQueues[c]
        proc == Head(queue)
        executeTime == Min(e.timeQuantum, e.processes[proc].remainingTime)
        remainingTime == e.processes[proc].remainingTime - executeTime
        coreTime == e.coreTime[c] + executeTime
    IN  IF remainingTime > 0
        THEN [e EXCEPT !.active = TRUE,
                       !.ganttCharts[c] = Append(@, <<e.processes[proc].id, executeTime>>),
                       !.processes[proc].remainingTime = remainingTime,
                       !.coreTime[c] = coreTime,
                       !.coreQueues[c] = Append(Tail(queue), proc),
                       !.core = @ + 1]
        ELSE [e EXCEPT !.active = TRUE,
                       !.ganttCharts[c] = Append(@, <<e.processes[proc].id, executeTime>>),
                       !.processes[proc].remainingTime = remainingTime,
                       !.coreTime[c] = coreTime,
                       !.coreQueues[c] = Tail(queue),
                       !.processes[proc].coreId = e.core,
                       !.processes[proc].turnaroundTime = coreTime,
                       !.processes[proc].waitingTime = coreTime - e.processes[proc].burstTime,
                       !.metrics.totalPowerConsumption = @ + e.processes[proc].powerConsumption,
                       !.core = @ + 1]

(***************************************************************************)
(* The steps of a policy run.  A round-robin run with a quantum below 1    *)
(* need not end: the model follows a run while the timeline of the core it *)
(* is at holds fewer than SliceLimit slices.  A run with a quantum of 1 or *)
(* more logs at most a slice per unit of burst, and one for a burst of 0.  *)
(***************************************************************************)
SliceLimit(e) ==
    IF e.timeQuantum >= 1
    THEN Len(e.processes)
           + SumSeq([i \in DOMAIN e.processes |-> e.processes[i].burstTime])
           + MaxSlices
    ELSE MaxSlices

InLoop(e) ==
    \/ e.pc \in {"fcfs", "priority", "edf"} /\ e.idx <= Len(e.processes)
    \/ e.pc = "rr" /\ e.core < e.numCores
           /\ Len(e.ganttCharts[e.core + 1]) < SliceLimit(e)

AtReturn(e) ==
    \/ e.pc \in {"fcfs", "priority", "edf"} /\ e.idx > Len(e.processes)
    \/ e.pc = "rr" /\ e.core = e.numCores

LoopBody(e) ==
    CASE e.pc = "fcfs" -> fcfsBody(e)
      [] e.pc = "priority" -> priorityBody(e)
      [] e.pc = "edf" -> edfBody(e)
      [] e.pc = "rr" -> rrSkip(rrBody(e))

\* The next step of the run e is in; e itself when the run has returned,
\* crashed or is followed no further.
StepOf(e) ==
    IF InLoop(e) THEN LoopBody(e)
    ELSE IF AtReturn(e) THEN finalize(e)
    ELSE e

(***************************************************************************)
(* The caller.  ref is the engine of a second caller who builds the same   *)
(* collection on the same number of cores and makes only the last policy   *)
(* call, step for step with eng; last names the last call made, and for a  *)
(* policy call tells whether an earlier run had left its results in eng.   *)
(***************************************************************************)
\* <<burst, priority, deadline, real-time>> of the processes a caller adds:
\* bursts of 0, 1 and 2, equal and different priorities, no deadline and
\* deadlines that the burst alone meets or misses, the two keys disagreeing.
Kinds ==
    {<<1, 1, 2, TRUE>>, <<2, 2, 1, TRUE>>, <<2, 1, 0, FALSE>>, <<0, 2, 0, FALSE>>}

\* addProcess takes any id: the next free one, as the drivers of the code
\* choose it, or one that is taken already.
ProcessInputs(n) ==
    {Process(n + 1, k[1], k[2], k[3], k[4]) : k \in Kinds}
        \cup {Process(1, 1, 2, 2, TRUE)}

CoreInputs == {-1, 0, 1, 2, DefaultCores}

Quanta == {-1, 0, 1, 2}

\* What a user types into inputEnhancedProcesses: <<burst, priority, deadline, real-time>>.
UserInputs ==
    {<< <<10, DefaultPriority, 0, FALSE>>, <<5, DefaultPriority, 0, FALSE>>,
        <<8, DefaultPriority, 0, FALSE>>, <<3, DefaultPriority, 0, FALSE>> >>,
     << <<10, DefaultPriority, 5, TRUE>> >>,
     << <<4, DefaultPriority, 0, FALSE>>, <<4, DefaultPriority, 0, FALSE>> >>}

Fresh(e) ==
    [EnhancedCPUScheduler(e.numCores) EXCEPT
        !.processes = [i \in DOMAIN e.processes |->
            Process(e.processes[i].id, e.processes[i].burstTime, e.processes[i].priority,
                    e.processes[i].deadline, e.processes[i].isRealTime)]]

\* The threads that share the engine, none of them inside a call, and
\* schedulerMutex free (0; otherwise the thread that holds it).
Threads == 1..NumThreads

NoThreads ==
    [mutex |-> 0,
     th |-> [t \in Threads |-> [pc |-> "idle", op |-> "none", arg |-> 0]]]

Init ==
    /\ eng = EnhancedCPUScheduler(DefaultCores)
    /\ ref = EnhancedCPUScheduler(DefaultCores)
    /\ last = [op |-> "EnhancedCPUScheduler", arg |-> DefaultCores, rerun |-> FALSE,
               choice |-> 0]
    /\ threads = NoThreads

Called(e, op, arg) ==
    /\ eng.pc = "idle"
    /\ eng' = e
    /\ ref' = Fresh(e)
    /\ last' = [op |-> op, arg |-> arg, rerun |-> FALSE, choice |-> 0]
    /\ UNCHANGED threads

AddProcess ==
    /\ Len(eng.processes) < MaxProcs
    /\ \E p \in ProcessInputs(Len(eng.processes)) :
           Called(addProcess(NoFrame(eng), p), "addProcess", p.id)

ClearProcesses == Called(clearProcesses(NoFrame(eng)), "clearProcesses", 0)

Reconfigure ==
    \E n \in CoreInputs : Called(reconfigure(NoFrame(eng), n), "reconfigure", n)

RECURSIVE inputProcesses(_, _, _)
inputProcesses(e, typed, i) ==
    IF i >= Len(typed) THEN e
    ELSE inputProcesses(addProcess(e, Process(i + 1, typed[i + 1][1], typed[i + 1][2],
                                              typed[i + 1][3], typed[i + 1][4])),
                        typed, i + 1)

inputEnhancedProcesses(e, typed) == inputProcesses(clearProcesses(e), typed, 0)

InputEnhancedProcesses ==
    \E typed \in UserInputs :
        Called(inputEnhancedProcesses(NoFrame(eng), typed), "inputEnhancedProcesses", Len(typed))

loadEnhancedExampleData(e) ==
    LET e0 == clearProcesses(e)
        e1 == addProcess(e0, Process(1, 10, 100, 25, FALSE))
        e2 == addProcess(e1, Process(2, 5, 50, 15, TRUE))
        e3 == addProcess(e2, Process(3, 8, 150, 20, FALSE))
        e4 == addProcess(e3, Process(4, 3, 25, 10, TRUE))
        e5 == addProcess(e4, Process(5, 12, 75, 30, FALSE))
    IN  addProcess(e5, Process(6, 6, 10, 18, TRUE))

LoadEnhancedExampleData ==
    Called(loadEnhancedExampleData(NoFrame(eng)), "loadEnhancedExampleData", 0)

Policy(e, r, op, arg) ==
    /\ eng.pc = "idle"
    /\ eng' = e
    /\ ref' = r
    /\ last' = [op |-> op, arg |-> arg, rerun |-> NoFrame(eng) # Fresh(eng),
                choice |-> 0]
    /\ UNCHANGED threads

RunFCFS == Policy(multiCoreFCFS(eng), multiCoreFCFS(Fresh(eng)), "multiCoreFCFS", 0)

RunPriority ==
    \E order \in PriorityOrders(eng) :
        Policy(priorityScheduling(eng, order), priorityScheduling(Fresh(eng), order),
               "priorityScheduling", 0)

RunEDF ==
    \E order \in DeadlineOrders(eng) :
        Policy(edfScheduling(eng, order), edfScheduling(Fresh(eng), order),
               "edfScheduling", 0)

RunRoundRobin ==
    \E tq \in Quanta :
        Policy(multiCoreRoundRobin(eng, tq), multiCoreRoundRobin(Fresh(eng), tq),
               "multiCoreRoundRobin", tq)

Loop ==
    /\ InLoop(eng)
    /\ eng' = LoopBody(eng)
    /\ ref' = StepOf(ref)
    /\ UNCHANGED <<last, threads>>

Return ==
    /\ AtReturn(eng)
    /\ eng' = finalize(eng)
    /\ ref' = StepOf(ref)
    /\ UNCHANGED <<last, threads>>

Step == Loop \/ Return

Next ==
    \/ AddProcess
    \/ ClearProcesses
    \/ Reconfigure
    \/ InputEnhancedProcesses
    \/ LoadEnhancedExampleData
    \/ RunFCFS
    \/ RunPriority
    \/ RunEDF
    \/ RunRoundRobin
    \/ Loop
    \/ Return

Spec == Init /\ [][Next]_vars

\* A policy runs to completion on the caller's thread: a run that can take
\* its next step takes it.
LiveSpec == Spec /\ WF_vars(Step)

(***************************************************************************)
(* The repository of src/unnamed/part_000 called from several threads.     *)
(* A thread is idle or inside one call; a step is one statement of the     *)
(* call.  std::lock_guard takes schedulerMutex where it is declared and    *)
(* gives it back where the function returns.  reconfigure takes no lock of *)
(* its own: clearProcesses has returned, and released the mutex, before    *)
(* numCores is assigned and ganttCharts is resized.                        *)
(***************************************************************************)
ThreadCores == {1, 2}

At(t, pc) == eng.pc # "aborted" /\ threads.th[t].pc = pc

\* Thread t goes to pc; holder is the owner of schedulerMutex afterwards.
Goes(t, pc, holder) ==
    threads' = [threads EXCEPT !.mutex = holder, !.th[t].pc = pc]

CallAddProcess(t) ==
    /\ At(t, "idle")
    /\ Len(eng.processes) < MaxProcs
    /\ threads' = [threads EXCEPT !.th[t] =
           [pc |-> "lock", op |-> "addProcess", arg |-> t]]
    /\ UNCHANGED <<eng, ref, last>>

CallClearProcesses(t) ==
    /\ At(t, "idle")
    /\ threads' = [threads EXCEPT !.th[t] =
           [pc |-> "lock", op |-> "clearProcesses", arg |-> 0]]
    /\ UNCHANGED <<eng, ref, last>>

\* reconfigure(newNumCores) starts with the call of clearProcesses().
CallReconfigure(t) ==
    /\ At(t, "idle")
    /\ \E n \in ThreadCores :
           threads' = [threads EXCEPT !.th[t] =
               [pc |-> "lock", op |-> "reconfigure", arg |-> n]]
    /\ UNCHANGED <<eng, ref, last>>

\* std::lock_guard<std::mutex> lock(schedulerMutex)
Lock(t) ==
    /\ At(t, "lock")
    /\ threads.mutex = 0
    /\ Goes(t, IF threads.th[t].op = "addProcess" THEN "push_back" ELSE "clear", t)
    /\ UNCHANGED <<eng, ref, last>>

\* processes.push_back(p) and the return of addProcess.
PushBack(t) ==
    /\ At(t, "push_back")
    /\ eng' = addProcess(eng, Process(threads.th[t].arg, 1, DefaultPriority, 0, FALSE))
    /\ Goes(t, "idle", 0)
    /\ UNCHANGED <<ref, last>>

\* processes.clear()
ClearCollection(t) ==
    /\ At(t, "clear")
    /\ eng' = [eng EXCEPT !.processes = <<>>]
    /\ Goes(t, "charts", t)
    /\ UNCHANGED <<ref, last>>

\* for (auto& chart : ganttCharts) chart.clear()
ClearCharts(t) ==
    /\ At(t, "charts")
    /\ eng' = [eng EXCEPT !.ganttCharts = [c \in DOMAIN @ |-> <<>>]]
    /\ Goes(t, "metrics", t)
    /\ UNCHANGED <<ref, last>>

\* metrics = SystemMetrics() and the return of clearProcesses, to its caller
\* or into reconfigure.
ClearMetrics(t) ==
    /\ At(t, "metrics")
    /\ eng' = [eng EXCEPT !.metrics = SystemMetrics]
    /\ Goes(t, IF threads.th[t].op = "reconfigure" THEN "assign" ELSE "idle", 0)
    /\ UNCHANGED <<ref, last>>

\* numCores = newNumCores
AssignNumCores(t) ==
    /\ At(t, "assign")
    /\ eng' = [eng EXCEPT !.numCores = threads.th[t].arg]
    /\ Goes(t, "resize", threads.mutex)
    /\ UNCHANGED <<ref, last>>

\* ganttCharts.resize(numCores) and the return of reconfigure.
ResizeCharts(t) ==
    /\ At(t, "resize")
    /\ eng' = [eng EXCEPT !.ganttCharts = resize(@, eng.numCores)]
    /\ Goes(t, "idle", threads.mutex)
    /\ UNCHANGED <<ref, last>>

\* Two threads are about to access numCores or ganttCharts, one of them
\* writing, with nothing that orders the two accesses.
Races(t, u) ==
    \/ threads.th[t].pc = "assign" /\ threads.th[u].pc \in {"assign", "resize"}
    \/ threads.th[t].pc = "resize" /\ threads.th[u].pc \in {"resize", "charts"}

\* A data race is undefined behaviour: besides the interleavings of the two
\* statements, the program may crash.
DataRace ==
    /\ eng.pc = "idle"
    /\ \E t, u \in Threads : t # u /\ Races(t, u)
    /\ eng' = [eng EXCEPT !.pc = "aborted"]
    /\ UNCHANGED <<ref, last, threads>>

ThreadStep(t) ==
    \/ CallAddProcess(t)
    \/ CallClearProcesses(t)
    \/ CallReconfigure(t)
    \/ Lock(t)
    \/ PushBack(t)
    \/ ClearCollection(t)
    \/ ClearCharts(t)
    \/ ClearMetrics(t)
    \/ AssignNumCores(t)
    \/ ResizeCharts(t)

NextThreads == (\E t \in Threads : ThreadStep(t)) \/ DataRace

SpecThreads == Init /\ [][NextThreads]_vars

(***************************************************************************)
(* A round-robin run of the engine with the mutex while other threads call *)
(* addProcess and clearProcesses.  The run takes no lock: it reads and     *)
(* writes processes, ganttCharts and metrics between the locked steps of   *)
(* the other threads, through the Process* it queued at its start.         *)
(***************************************************************************)
ThreadQuanta == {1, 2}

\* multiCoreRoundRobin(timeQuantum) up to the first slice, called by the
\* thread that owns the engine while the others are anywhere in their calls.
RunRoundRobinUnlocked ==
    /\ eng.pc = "idle"
    /\ eng.processes # <<>>
    /\ \E tq \in ThreadQuanta :
           /\ eng' = multiCoreRoundRobin(eng, tq)
           /\ last' = [op |-> "multiCoreRoundRobin", arg |-> tq, rerun |-> FALSE,
                       choice |-> 0]
    /\ UNCHANGED <<ref, threads>>

\* Process* proc = coreQueues[core].front() points at an element that the
\* vector still holds.
FrontIsLive(e) == Head(e.coreQueues[e.core + 1]) \in DOMAIN e.processes

\* One pass of the body of the round-robin loop.
LoopUnlocked ==
    /\ eng.pc = "rr"
    /\ InLoop(eng)
    /\ FrontIsLive(eng)
    /\ eng' = LoopBody(eng)
    /\ UNCHANGED <<ref, last, threads>>

\* The run dereferences a pointer to an element that processes.clear() has
\* destroyed: undefined behaviour, the run is followed no further.
LoopDangling ==
    /\ eng.pc = "rr"
    /\ InLoop(eng)
    /\ ~FrontIsLive(eng)
    /\ eng' = [eng EXCEPT !.pc = "aborted"]
    /\ UNCHANGED <<ref, last, threads>>

\* The end of the run: totalTime, metrics.totalProcesses = processes.size()
\* and calculateMetrics.
ReturnUnlocked ==
    /\ eng.pc = "rr"
    /\ AtReturn(eng)
    /\ eng' = finalize(eng)
    /\ UNCHANGED <<ref, last, threads>>

\* A thread is about to write processes, ganttCharts or metrics under the
\* mutex while the run accesses them without it: a data race, the program
\* may crash.
RunDataRace ==
    /\ eng.pc = "rr"
    /\ \E t \in Threads : threads.th[t].pc \in {"push_back", "clear", "charts", "metrics"}
    /\ eng' = [eng EXCEPT !.pc = "aborted"]
    /\ UNCHANGED <<ref, last, threads>>

RepositoryStep(t) ==
    \/ CallAddProcess(t)
    \/ CallClearProcesses(t)
    \/ Lock(t)
    \/ PushBack(t)
    \/ ClearCollection(t)
    \/ ClearCharts(t)
    \/ ClearMetrics(t)

NextOverlap ==
    \/ \E t \in Threads : RepositoryStep(t)
    \/ RunRoundRobinUnlocked
    \/ LoopUnlocked
    \/ LoopDangling
    \/ ReturnUnlocked
    \/ RunDataRace

SpecOverlap == Init /\ [][NextOverlap]_vars

(***************************************************************************)
(* main: the menu loop on the engine EnhancedCPUScheduler(4).  last.choice *)
(* is the option being served (0 before the first one); option 7 makes its *)
(* four runAndDisplay calls one after the other, and the menu is shown     *)
(* again when the call of the option has returned.                         *)
(***************************************************************************)
\* What a user types for the number of cores and for the number of
\* processes of option 1 (with the values of UserInputs for the processes).
MenuCores == {0, 1, 2, 16, 17}

MenuCounts == {-1, 0}

\* if (numCores >= 1 && numCores <= 16)
coresInRange_AnyNumber(numCores) == TRUE

coresInRange(numCores) == numCores >= 1 /\ numCores <= 16

\* Option 7 has made the call of runAndDisplay for policy op and has the
\* next one to make.
Comparing(op) == eng.pc = "idle" /\ last.choice = 7 /\ last.op = op

\* displayEnhancedMenu(); std::cin >> choice: no call is under way.
AtMenu ==
    /\ eng.pc = "idle"
    /\ ~(last.choice = 7
           /\ last.op \in {"multiCoreFCFS", "priorityScheduling", "edfScheduling"})

\* The engine, and the one of the second caller, after a call of option choice.
Serves(e, r, op, arg, choice) ==
    /\ eng' = e
    /\ ref' = r
    /\ last' = [op |-> op, arg |-> arg, rerun |-> NoFrame(eng) # Fresh(eng),
                choice |-> choice]
    /\ UNCHANGED threads

\* case 1: scheduler.inputEnhancedProcesses(), with a count that adds no
\* process or with the processes of UserInputs.
Choice1 ==
    /\ AtMenu
    /\ \/ \E n \in MenuCounts :
              LET e == inputEnhancedProcesses(NoFrame(eng), <<>>)
              IN  Serves(e, Fresh(e), "inputEnhancedProcesses", n, 1)
       \/ \E typed \in UserInputs :
              LET e == inputEnhancedProcesses(NoFrame(eng), typed)
              IN  Serves(e, Fresh(e), "inputEnhancedProcesses", Len(typed), 1)

\* case 2: scheduler.loadEnhancedExampleData()
Choice2 ==
    /\ AtMenu
    /\ LET e == loadEnhancedExampleData(NoFrame(eng))
       IN  Serves(e, Fresh(e), "loadEnhancedExampleData", 0, 2)

\* runAndDisplay on an empty collection: the message, and no call.
NoProcesses(algo, choice) ==
    /\ isEmpty(eng)
    /\ Serves(eng, ref, "runAndDisplay", algo, choice)

\* runAndDisplay(scheduler, algo, timeQuantum) up to the first step of the
\* policy.
runAndDisplay(algo, timeQuantum, choice) ==
    /\ ~isEmpty(eng)
    /\ CASE algo = 3 ->
              Serves(multiCoreFCFS(eng), multiCoreFCFS(Fresh(eng)),
                     "multiCoreFCFS", 0, choice)
         [] algo = 4 ->
              \E order \in PriorityOrders(eng) :
                  Serves(priorityScheduling(eng, order),
                         priorityScheduling(Fresh(eng), order),
                         "priorityScheduling", 0, choice)
         [] algo = 5 ->
              \E order \in DeadlineOrders(eng) :
                  Serves(edfScheduling(eng, order), edfScheduling(Fresh(eng), order),
                         "edfScheduling", 0, choice)
         [] algo = 6 ->
              Serves(multiCoreRoundRobin(eng, timeQuantum),
                     multiCoreRoundRobin(Fresh(eng), timeQuantum),
                     "multiCoreRoundRobin", timeQuantum, choice)

\* case 3, 4, 5: runAndDisplay(scheduler, choice)
Choice345 ==
    /\ AtMenu
    /\ \E choice \in {3, 4, 5} :
           NoProcesses(choice, choice) \/ runAndDisplay(choice, 0, choice)

\* case 6: the quantum is read when the collection is not empty.
Choice6 ==
    /\ AtMenu
    /\ \/ NoProcesses(6, 6)
       \/ \E tq \in Quanta : runAndDisplay(6, tq, 6)

\* case 7: runAndDisplay(scheduler, 3), and on an empty collection the four
\* calls, none of which runs a policy.
Choice7 ==
    /\ AtMenu
    /\ NoProcesses(7, 7) \/ runAndDisplay(3, 0, 7)

\* case 7, when a run has returned: runAndDisplay(scheduler, 4), then 5, then
\* the quantum is read and runAndDisplay(scheduler, 6, tq).
Compare ==
    \/ Comparing("multiCoreFCFS") /\ runAndDisplay(4, 0, 7)
    \/ Comparing("priorityScheduling") /\ runAndDisplay(5, 0, 7)
    \/ Comparing("edfScheduling") /\ \E tq \in Quanta : runAndDisplay(6, tq, 7)

\* case 8: the number of cores is read and, when in range, passed to
\* reconfigure.
Choice8 ==
    /\ AtMenu
    /\ \E numCores \in MenuCores :
           IF coresInRange(numCores)
           THEN LET e == reconfigure(NoFrame(eng), numCores)
                IN  Serves(e, Fresh(e), "reconfigure", numCores, 8)
           ELSE Serves(eng, ref, "main", numCores, 8)

\* case 9: return 0
Choice9 ==
    /\ AtMenu
    /\ Serves([eng EXCEPT !.pc = "exited"], ref, "main", 0, 9)

NextMenu ==
    \/ Choice1
    \/ Choice2
    \/ Choice345
    \/ Choice6
    \/ Choice7
    \/ Compare
    \/ Choice8
    \/ Choice9
    \/ Loop
    \/ Return

SpecMenu == Init /\ [][NextMenu]_vars

(***************************************************************************)
(* Vocabulary of the properties.                                           *)
(***************************************************************************)
Policies == {"multiCoreFCFS", "priorityScheduling", "edfScheduling", "multiCoreRoundRobin"}

InRun == eng.pc \in {"fcfs", "priority", "edf", "rr"}

\* The last call was policy op, and it has returned.
Ran(op) == eng.pc = "idle" /\ last.op = op

RanPolicy == eng.pc = "idle" /\ last.op \in Policies

RanRoundRobin == Ran("multiCoreRoundRobin") /\ last.arg >= 1

DistinctIds(ps) ==
    \A i, j \in DOMAIN ps : i # j => ps[i].id # ps[j].id

PositiveBursts(ps) == \A i \in DOMAIN ps : ps[i].burstTime > 0

\* The summed durations of a timeline, and of its slices that carry an id.
RECURSIVE Busy(_)
Busy(chart) == IF chart = <<>> THEN 0 ELSE Head(chart)[2] + Busy(Tail(chart))

RECURSIVE Executed(_, _)
Executed(chart, id) ==
    IF chart = <<>> THEN 0
    ELSE (IF Head(chart)[1] = id THEN Head(chart)[2] ELSE 0) + Executed(Tail(chart), id)

ExecutedOnAll(charts, id) ==
    SumSeq([c \in DOMAIN charts |-> Executed(charts[c], id)])

\* The largest per-core busy time of the timelines; 0 when there is no core.
Makespan(charts) ==
    IF charts = <<>> THEN 0
    ELSE CHOOSE t \in {Busy(charts[c]) : c \in DOMAIN charts} :
             \A c \in DOMAIN charts : Busy(charts[c]) <= t

(***************************************************************************)
(* C1: after FCFS, Priority, EDF or round-robin with a quantum of 1 or     *)
(* more has run on a non-empty collection with distinct ids and positive   *)
(* bursts on one core or more, every process has a coreId in               *)
(* 0..numCores-1 and turnaroundTime = waitingTime + burstTime.             *)
(***************************************************************************)
C1_Case ==
    /\ RanPolicy
    /\ last.op = "multiCoreRoundRobin" => last.arg >= 1
    /\ eng.processes # <<>>
    /\ DistinctIds(eng.processes)
    /\ PositiveBursts(eng.processes)
    /\ eng.numCores >= 1

C1_CoreAndTurnaround ==
    C1_Case =>
        \A i \in DOMAIN eng.processes :
            /\ eng.processes[i].coreId \in 0..(eng.numCores - 1)
            /\ eng.processes[i].turnaroundTime
                   = eng.processes[i].waitingTime + eng.processes[i].burstTime

\* A round-robin run on two cores where a process finished after waiting.
C1_Witness ==
    /\ C1_Case
    /\ last.op = "multiCoreRoundRobin"
    /\ eng.numCores = 2
    /\ Len(eng.processes) = 3
    /\ \E i \in DOMAIN eng.processes : eng.processes[i].waitingTime > 0
    /\ \E i \in DOMAIN eng.processes : eng.processes[i].coreId = 1

(***************************************************************************)
(* C2: a policy run that has returned left the per-process fields, the     *)
(* per-core timelines and the metrics exactly as the same run leaves them  *)
(* on an engine that holds the same immutable facts and the same number of *)
(* cores and has run nothing before (ref), whatever ran earlier.           *)
(***************************************************************************)
C2_SameAsFirstRun ==
    RanPolicy =>
        /\ ref.pc = "idle"
        /\ eng.processes = ref.processes
        /\ eng.ganttCharts = ref.ganttCharts
        /\ eng.metrics = ref.metrics

\* A run that started on the leftovers of an earlier run and did work.
C2_Witness ==
    /\ RanPolicy
    /\ last.rerun
    /\ Len(eng.processes) >= 2
    /\ eng.metrics.deadlineMisses > 0
    /\ eng.metrics.totalPowerConsumption > 0

(***************************************************************************)
(* C3: a call of round-robin with a quantum of 0 or less on a non-empty    *)
(* collection returns at once and leaves the per-process fields, the       *)
(* timelines and the metrics as they were before the call.                 *)
(***************************************************************************)
C3_Call ==
    /\ eng.pc = "idle"
    /\ last'.op = "multiCoreRoundRobin"
    /\ last'.arg <= 0
    /\ eng.processes # <<>>

C3_QuantumRejected ==
    [][C3_Call => /\ eng'.pc = "idle"
                  /\ eng'.processes = eng.processes
                  /\ eng'.ganttCharts = eng.ganttCharts
                  /\ eng'.metrics = eng.metrics]_vars

(***************************************************************************)
(* C4: every policy run returns: FCFS, Priority and EDF on any collection, *)
(* round-robin for a quantum of 1 or more on a collection with positive    *)
(* bursts; and where round-robin leaves its loop every core queue is empty *)
(* and every process has remainingTime = 0.                                *)
(***************************************************************************)
C4_Case ==
    /\ InRun
    /\ eng.pc = "rr" => eng.timeQuantum >= 1 /\ PositiveBursts(eng.processes)

C4_RoundRobinDone ==
    (C4_Case /\ eng.pc = "rr" /\ AtReturn(eng)) =>
        /\ \A c \in DOMAIN eng.coreQueues : eng.coreQueues[c] = <<>>
        /\ \A i \in DOMAIN eng.processes : eng.processes[i].remainingTime = 0

C4_Terminates ==
    /\ C4_Case ~> eng.pc = "idle"
    /\ []C4_RoundRobinDone

(***************************************************************************)
(* C5: a policy called on an empty collection is a no-op: the run returns  *)
(* with its first step, the collection, every timeline and numCores stay   *)
(* as they were, and every metrics field is at its zero default.           *)
(***************************************************************************)
C5_Call == eng.pc = "idle" /\ last'.op \in Policies /\ eng.processes = <<>>

C5_Running == InRun /\ eng.processes = <<>>

C5_EmptyIsNoOp ==
    [][/\ (C5_Call \/ C5_Running) =>
            /\ eng'.processes = eng.processes
            /\ eng'.ganttCharts = eng.ganttCharts
            /\ eng'.numCores = eng.numCores
            /\ eng'.metrics = SystemMetrics
       /\ C5_Call => eng'.pc \in {"fcfs", "priority", "edf", "rr"}
       /\ C5_Running => eng'.pc = "idle"]_vars

\* Round-robin has returned from an empty collection on two cores.
C5_Witness ==
    /\ Ran("multiCoreRoundRobin")
    /\ eng.processes = <<>>
    /\ eng.numCores = 2
    /\ eng.metrics = SystemMetrics

(***************************************************************************)
(* C6: reconfigure with a core count below 1 is rejected: numCores, the    *)
(* collection, the timelines and the metrics are after the call as they    *)
(* were before it.                                                         *)
(***************************************************************************)
C6_Call == eng.pc = "idle" /\ last'.op = "reconfigure" /\ last'.arg < 1

C6_CoreCountRejected ==
    [][C6_Call => /\ eng'.pc = "idle"
                  /\ eng'.numCores = eng.numCores
                  /\ eng'.processes = eng.processes
                  /\ eng'.ganttCharts = eng.ganttCharts
                  /\ eng'.metrics = eng.metrics]_vars

(***************************************************************************)
(* C7: after a round-robin run with a quantum of 1 or more on a collection *)
(* with distinct ids, the durations of the slices that carry a process's   *)
(* id, over all cores, sum to its burstTime.                               *)
(***************************************************************************)
C7_Case == RanRoundRobin /\ DistinctIds(eng.processes)

C7_Conservation ==
    C7_Case =>
        \A i \in DOMAIN eng.processes :
            ExecutedOnAll(eng.ganttCharts, eng.processes[i].id)
                = eng.processes[i].burstTime

\* A run in which a process took two slices, one of them a partial quantum.
C7_Witness ==
    /\ C7_Case
    /\ last.arg = 2
    /\ Len(eng.processes) = 3
    /\ \E c \in DOMAIN eng.ganttCharts :
           \E k \in DOMAIN eng.ganttCharts[c] : eng.ganttCharts[c][k][2] = 1
    /\ \E c \in DOMAIN eng.ganttCharts : Len(eng.ganttCharts[c]) >= 3

(***************************************************************************)
(* C8: after any policy run the slice durations of each core's timeline    *)
(* sum to that core's busy-time accumulator, and the largest of the sums   *)
(* is the makespan the metrics were finalized with.                        *)
(***************************************************************************)
C8_BusyTimes ==
    RanPolicy =>
        /\ DOMAIN eng.coreTime = DOMAIN eng.ganttCharts
        /\ \A c \in DOMAIN eng.ganttCharts : Busy(eng.ganttCharts[c]) = eng.coreTime[c]
        /\ eng.totalTime = Makespan(eng.ganttCharts)

\* A run that left two cores with different busy times, the first the smaller.
C8_Witness ==
    /\ RanPolicy
    /\ eng.numCores = 2
    /\ Busy(eng.ganttCharts[1]) > 0
    /\ Busy(eng.ganttCharts[1]) < Busy(eng.ganttCharts[2])
    /\ eng.totalTime = Busy(eng.ganttCharts[2])

(***************************************************************************)
(* C9: after any policy run metrics.totalProcesses is the size of the      *)
(* collection, and metrics.throughput is totalProcesses divided by the     *)
(* largest per-core busy time when that is positive, and 0 when it is 0.   *)
(***************************************************************************)
C9_Throughput ==
    RanPolicy =>
        LET makespan == Makespan(eng.ganttCharts)
            throughput == eng.metrics.throughput
        IN  /\ eng.metrics.totalProcesses = Len(eng.processes)
            /\ makespan > 0 => throughput = Quot(Len(eng.processes), makespan)
            /\ makespan = 0 => throughput = <<0, 1>>

\* A run of two processes with a makespan of 3: the throughput is 2/3.
C9_Witness ==
    /\ RanPolicy
    /\ Makespan(eng.ganttCharts) = 3
    /\ eng.metrics.throughput = <<2, 3>>

(***************************************************************************)
(* C10: after an EDF run on a collection with distinct ids,                *)
(* metrics.deadlineMisses is the number of processes with deadline > 0 and *)
(* turnaroundTime > deadline; one process with deadline 5 and burstTime 10 *)
(* on one core gives 1, and a process with deadline 0 is not counted.      *)
(***************************************************************************)
C10_Case == Ran("edfScheduling") /\ DistinctIds(eng.processes)

Missed(ps) ==
    {i \in DOMAIN ps : ps[i].deadline > 0 /\ ps[i].turnaroundTime > ps[i].deadline}

C10_Literal ==
    /\ eng.numCores = 1
    /\ Len(eng.processes) = 1
    /\ eng.processes[1].deadline = 5
    /\ eng.processes[1].burstTime = 10

C10_DeadlineMisses ==
    C10_Case =>
        /\ eng.metrics.deadlineMisses = Cardinality(Missed(eng.processes))
        /\ C10_Literal => eng.metrics.deadlineMisses = 1
        /\ (\A i \in DOMAIN eng.processes : eng.processes[i].deadline = 0)
               => eng.metrics.deadlineMisses = 0

\* The run of one process with deadline 5 and burst 10 on one core.
C10_Witness ==
    /\ C10_Case
    /\ C10_Literal
    /\ eng.processes[1].turnaroundTime = 10
    /\ eng.metrics.deadlineMisses = 1

(***************************************************************************)
(* C11: in round-robin the assignment is static: every slice a core's      *)
(* timeline holds, while the run goes on and after it, carries the id of a *)
(* process whose 0-based position i in the collection has i mod numCores = *)
(* that core, and a run that has returned left every process with coreId = *)
(* i mod numCores and with a slice on that core.                           *)
(***************************************************************************)
\* The 0-based core of the process at (1-based) position i.
StaticCore(i) == (i - 1) % eng.numCores

C11_SlicesOnStaticCore ==
    \A c \in DOMAIN eng.ganttCharts :
        \A k \in DOMAIN eng.ganttCharts[c] :
            \E i \in DOMAIN eng.processes :
                /\ eng.processes[i].id = eng.ganttCharts[c][k][1]
                /\ StaticCore(i) = c - 1

C11_StaticAssignment ==
    /\ (eng.pc = "rr" \/ Ran("multiCoreRoundRobin")) => C11_SlicesOnStaticCore
    /\ Ran("multiCoreRoundRobin") =>
           \A i \in DOMAIN eng.processes :
               /\ eng.processes[i].coreId = StaticCore(i)
               /\ \E k \in DOMAIN eng.ganttCharts[StaticCore(i) + 1] :
                      eng.ganttCharts[StaticCore(i) + 1][k][1] = eng.processes[i].id

\* Three processes with distinct ids on two cores: the first and the third
\* share core 0 and took several slices, the second is alone on core 1.
C11_Witness ==
    /\ RanRoundRobin
    /\ DistinctIds(eng.processes)
    /\ eng.numCores = 2
    /\ Len(eng.processes) = 3
    /\ Len(eng.ganttCharts[1]) >= 3
    /\ eng.processes[3].coreId = 0
    /\ eng.processes[2].coreId = 1

(***************************************************************************)
(* C12: FCFS on at most numCores processes with positive bursts places the *)
(* process at 0-based position i alone on core i with waitingTime 0 and    *)
(* turnaroundTime = burstTime, leaves the other cores idle, and the        *)
(* makespan is the largest burst; bursts 10, 5, 8, 3 on 4 cores give 10.   *)
(***************************************************************************)
C12_Case ==
    /\ Ran("multiCoreFCFS")
    /\ eng.processes # <<>>
    /\ Len(eng.processes) <= eng.numCores
    /\ PositiveBursts(eng.processes)

Bursts(ps) == [i \in DOMAIN ps |-> ps[i].burstTime]

Largest(v) == CHOOSE x \in {v[i] : i \in DOMAIN v} : \A i \in DOMAIN v : v[i] <= x

C12_Literal == eng.numCores = 4 /\ Bursts(eng.processes) = <<10, 5, 8, 3>>

C12_OneCoreEach ==
    C12_Case =>
        /\ \A i \in DOMAIN eng.processes :
               /\ eng.processes[i].coreId = i - 1
               /\ eng.processes[i].waitingTime = 0
               /\ eng.processes[i].turnaroundTime = eng.processes[i].burstTime
               /\ eng.ganttCharts[i] = <<<<eng.processes[i].id, eng.processes[i].burstTime>>>>
        /\ \A c \in DOMAIN eng.ganttCharts : c > Len(eng.processes) => eng.ganttCharts[c] = <<>>
        /\ eng.totalTime = Largest(Bursts(eng.processes))
        /\ C12_Literal => eng.totalTime = 10

\* FCFS has run on bursts 10, 5, 8, 3 on 4 cores.
C12_Witness ==
    /\ C12_Case
    /\ C12_Literal
    /\ eng.processes[4].coreId = 3
    /\ eng.metrics.throughput = <<2, 5>>

(***************************************************************************)
(* C13: FCFS on one core: the waitingTime of a process is the sum of the   *)
(* bursts inserted before it, its turnaroundTime that sum plus its own     *)
(* burst, the makespan the sum of all bursts and the throughput the count  *)
(* over the makespan; bursts 10, 5, 8, 3 give waiting 0, 10, 15, 23,       *)
(* turnaround 10, 15, 23, 26, makespan 26 and throughput 4/26.             *)
(***************************************************************************)
C13_Case == Ran("multiCoreFCFS") /\ eng.numCores = 1

RECURSIVE Total(_)
Total(v) == IF v = <<>> THEN 0 ELSE v[Len(v)] + Total(SubSeq(v, 1, Len(v) - 1))

BurstsBefore(i) == Total(SubSeq(Bursts(eng.processes), 1, i - 1))

C13_SingleCore ==
    C13_Case =>
        LET makespan == Total(Bursts(eng.processes))
            throughput == eng.metrics.throughput
        IN  /\ \A i \in DOMAIN eng.processes :
                   /\ eng.processes[i].waitingTime = BurstsBefore(i)
                   /\ eng.processes[i].turnaroundTime
                          = BurstsBefore(i) + eng.processes[i].burstTime
            /\ eng.totalTime = makespan
            /\ makespan > 0 =>
                   /\ throughput[2] > 0
                   /\ throughput[1] * makespan = Len(eng.processes) * throughput[2]
            /\ Bursts(eng.processes) = <<10, 5, 8, 3>> =>
                   /\ [i \in 1..4 |-> eng.processes[i].waitingTime] = <<0, 10, 15, 23>>
                   /\ [i \in 1..4 |-> eng.processes[i].turnaroundTime] = <<10, 15, 23, 26>>
                   /\ eng.totalTime = 26
                   /\ throughput = <<2, 13>>

\* FCFS has run on bursts 10, 5, 8, 3 on one core.
C13_Witness ==
    /\ C13_Case
    /\ Bursts(eng.processes) = <<10, 5, 8, 3>>
    /\ eng.processes[4].waitingTime = 23
    /\ eng.ganttCharts = << <<<<1, 10>>, <<2, 5>>, <<3, 8>>, <<4, 3>>>> >>

(***************************************************************************)
(* C14: clearProcesses() leaves the collection empty, every per-core       *)
(* timeline empty and the metrics zero, and numCores as it was;            *)
(* reconfigure(n) with n >= 1 leaves the same and numCores = n with        *)
(* exactly n empty timelines, whatever the state before the call.          *)
(***************************************************************************)
C14_Clear == eng.pc = "idle" /\ last'.op = "clearProcesses"

C14_Reconfigure == eng.pc = "idle" /\ last'.op = "reconfigure" /\ last'.arg >= 1

C14_Cleared ==
    /\ eng'.pc = "idle"
    /\ eng'.processes = <<>>
    /\ \A c \in DOMAIN eng'.ganttCharts : eng'.ganttCharts[c] = <<>>
    /\ eng'.metrics = SystemMetrics

C14_ClearAndReconfigure ==
    [][/\ C14_Clear =>
            /\ C14_Cleared
            /\ eng'.numCores = eng.numCores
            /\ Len(eng'.ganttCharts) = Len(eng.ganttCharts)
       /\ C14_Reconfigure =>
            /\ C14_Cleared
            /\ eng'.numCores = last'.arg
            /\ Len(eng'.ganttCharts) = last'.arg]_vars

\* The engine has been reconfigured from the default four cores to two.
C14_Witness ==
    /\ eng.pc = "idle"
    /\ last.op = "reconfigure"
    /\ last.arg = 2
    /\ eng.numCores = 2
    /\ eng.ganttCharts = <<<<>>, <<>>>>
    /\ eng.processes = <<>>

(***************************************************************************)
(* C15: when addProcess, clearProcesses and reconfigure are called from    *)
(* different threads, every step that changes the collection, a timeline,  *)
(* the number of timelines or numCores is taken by the thread that holds   *)
(* schedulerMutex, so no two structural changes interleave.                *)
(***************************************************************************)
Moves(t) == threads'.th[t] # threads.th[t]

StructuralChange ==
    \/ eng'.processes # eng.processes
    \/ eng'.ganttCharts # eng.ganttCharts
    \/ eng'.numCores # eng.numCores

C15_ChangesUnderMutex ==
    [][\A t \in Threads : (Moves(t) /\ StructuralChange) => threads.mutex = t]_vars

(***************************************************************************)
(* C16: after any policy run on a collection with distinct ids and         *)
(* positive bursts, totalPowerConsumption is the sum of the                *)
(* powerConsumption (burstTime tenths) of the processes, each counted      *)
(* once, and averagePowerPerCore is that total divided by numCores.        *)
(***************************************************************************)
C16_Case ==
    /\ RanPolicy
    /\ DistinctIds(eng.processes)
    /\ PositiveBursts(eng.processes)

C16_Power ==
    C16_Case =>
        LET total == Total([i \in DOMAIN eng.processes |-> eng.processes[i].powerConsumption])
            average == eng.metrics.averagePowerPerCore
        IN  /\ eng.metrics.totalPowerConsumption = total
            /\ total = Total(Bursts(eng.processes))
            /\ average[2] > 0
            /\ average[1] * eng.numCores = total * average[2]

\* Three processes with bursts that sum to 5 have run on two cores.
C16_Witness ==
    /\ C16_Case
    /\ Len(eng.processes) = 3
    /\ eng.numCores = 2
    /\ eng.metrics.totalPowerConsumption = 5
    /\ eng.metrics.averagePowerPerCore = <<5, 2>>

(***************************************************************************)
(* C17: in FCFS, Priority and EDF every assignment goes to a core whose    *)
(* busy time at that moment is the minimum over all cores, and to the      *)
(* lowest-indexed of the cores that share the minimum.                     *)
(***************************************************************************)
Greedy == {"fcfs", "priority", "edf"}

\* The step appends one slice to the timeline of core c - 1 and to no other.
Assigns(c) ==
    /\ Len(eng'.ganttCharts[c]) = Len(eng.ganttCharts[c]) + 1
    /\ \A d \in DOMAIN eng.ganttCharts : d # c => eng'.ganttCharts[d] = eng.ganttCharts[d]

C17_Step == eng.pc \in Greedy /\ InLoop(eng) /\ eng'.pc # "aborted"

C18_Case ==
    /\ eng.pc = "idle"
    /\ last.op \in {"multiCoreFCFS", "priorityScheduling", "edfScheduling"}
    /\ DistinctIds(eng.processes)

\* The places <<core, position>> of the slices that carry the id.
SlicesOf(id) ==
    {cp \in UNION {{<<c, k>> : k \in DOMAIN eng.ganttCharts[c]} : c \in DOMAIN eng.ganttCharts} :
        eng.ganttCharts[cp[1]][cp[2]][1] = id}

C18_OneSlice ==
    C18_Case =>
        \A i \in DOMAIN eng.processes :
            LET p == eng.processes[i]
            IN  /\ Cardinality(SlicesOf(p.id)) = 1
                /\ \A cp \in SlicesOf(p.id) :
                       /\ cp[1] = p.coreId + 1
                       /\ eng.ganttCharts[cp[1]][cp[2]] = <<p.id, p.burstTime>>
                       /\ p.waitingTime = Busy(SubSeq(eng.ganttCharts[cp[1]], 1, cp[2] - 1))

\* A Priority run on two cores where the last process of the second core
\* waited for the one before it.
C18_Witness ==
    /\ C18_Case
    /\ last.op = "priorityScheduling"
    /\ eng.numCores = 2
    /\ Len(eng.processes) = 3
    /\ Len(eng.ganttCharts[2]) = 2
    /\ \E i \in DOMAIN eng.processes :
           eng.processes[i].coreId = 1 /\ eng.processes[i].waitingTime > 0

(***************************************************************************)
(* C19: in Priority and EDF, processes with equal sort key (priority,      *)
(* respectively deadline) are assigned in their insertion order: of two    *)
(* entries of the sorted copy with equal keys, the one that is earlier in  *)
(* the copy, and so is assigned first, is the earlier in the collection.   *)
(***************************************************************************)
SortKey(p) == IF eng.pc = "priority" THEN p.priority ELSE p.deadline

C19_TiesKeepOrder ==
    (eng.pc \in {"priority", "edf"} /\ DistinctIds(eng.processes)) =>
        \A a, b \in DOMAIN eng.sortedProcesses :
            (a < b /\ SortKey(eng.sortedProcesses[a]) = SortKey(eng.sortedProcesses[b]))
                => find_if(eng.processes, eng.sortedProcesses[a].id)
                       < find_if(eng.processes, eng.sortedProcesses[b].id)

(***************************************************************************)
(* C20: with positive bursts and distinct ids no later-ordered process     *)
(* starts earlier: after Priority a process with a strictly smaller        *)
(* priority value has a waitingTime <= that of any process with a larger   *)
(* one, after EDF the same holds for the deadline (a deadline of 0 comes   *)
(* before every positive deadline), and after FCFS the waitingTime is      *)
(* non-decreasing in insertion order.                                      *)
(***************************************************************************)
C20_Case ==
    /\ eng.pc = "idle"
    /\ DistinctIds(eng.processes)
    /\ PositiveBursts(eng.processes)

C20_KeyOrder ==
    C20_Case =>
        \A i, j \in DOMAIN eng.processes :
            LET p == eng.processes[i]
                q == eng.processes[j]
            IN  /\ (last.op = "priorityScheduling" /\ p.priority < q.priority)
                       => p.waitingTime <= q.waitingTime
                /\ (last.op = "edfScheduling" /\ p.deadline < q.deadline)
                       => p.waitingTime <= q.waitingTime
                /\ (last.op = "multiCoreFCFS" /\ i < j)
                       => p.waitingTime <= q.waitingTime

\* An EDF run in which a process without a deadline, inserted after one with
\* a deadline, started first.
C20_Witness ==
    /\ C20_Case
    /\ last.op = "edfScheduling"
    /\ \E i, j \in DOMAIN eng.processes :
           /\ i < j
           /\ eng.processes[i].deadline > 0
           /\ eng.processes[j].deadline = 0
           /\ eng.processes[j].waitingTime < eng.processes[i].waitingTime

(***************************************************************************)
(* C21: in a round-robin run with a quantum of 1 or more a process with    *)
(* burstTime 0 is never scheduled a slice and never finalized: no slice    *)
(* carries its id and its coreId is -1 when the run ends.                  *)
(***************************************************************************)
C21_Case == RanRoundRobin /\ DistinctIds(eng.processes)

ZeroBurst == {i \in DOMAIN eng.processes : eng.processes[i].burstTime = 0}

C21_ZeroBurstNeverScheduled ==
    C21_Case =>
        \A i \in ZeroBurst :
            /\ SlicesOf(eng.processes[i].id) = {}
            /\ eng.processes[i].coreId = -1

(***************************************************************************)
(* C21, as the code has it: in a round-robin run with a quantum of 1 or    *)
(* more a process with burstTime 0 gets exactly one slice, of duration 0,  *)
(* on the core of its position, and is finalized there at that slice:      *)
(* coreId is that core and waitingTime = turnaroundTime = the busy time of *)
(* the core before the slice.                                              *)
(***************************************************************************)
C21_ZeroBurstOneEmptySlice ==
    C21_Case =>
        \A i \in ZeroBurst :
            LET p == eng.processes[i]
            IN  /\ Cardinality(SlicesOf(p.id)) = 1
                /\ p.coreId = StaticCore(i)
                /\ \A cp \in SlicesOf(p.id) :
                       /\ cp[1] = StaticCore(i) + 1
                       /\ eng.ganttCharts[cp[1]][cp[2]] = <<p.id, 0>>
                       /\ p.turnaroundTime = Busy(SubSeq(eng.ganttCharts[cp[1]], 1, cp[2] - 1))
                       /\ p.waitingTime = p.turnaroundTime

\* A process with burst 0 was served after another process of its core.
C21_Witness ==
    /\ C21_Case
    /\ \E i \in ZeroBurst :
           /\ eng.processes[i].coreId >= 0
           /\ eng.processes[i].turnaroundTime > 0

(***************************************************************************)
(* C22: in round-robin with a quantum q >= 1 and positive bursts (ids      *)
(* distinct) every slice has the duration min(q, remaining time of its     *)
(* process before the slice): at every moment of the run the slices of a   *)
(* process sum to what it has executed, all have duration q except         *)
(* possibly the last, which is in 1..q and is shorter than q only if it    *)
(* finished the process; and when the run has returned a process with      *)
(* burst b has exactly ceil(b / q) slices.                                 *)
(***************************************************************************)
C22_Case ==
    /\ last.op = "multiCoreRoundRobin"
    /\ last.arg >= 1
    /\ eng.pc \in {"rr", "idle"}
    /\ DistinctIds(eng.processes)
    /\ PositiveBursts(eng.processes)

\* The durations of the slices that carry the id, in the order of timeline c.
Durations(c, id) ==
    LET own == SelectSeq(eng.ganttCharts[c], LAMBDA slice : slice[1] = id)
    IN  [k \in DOMAIN own |-> own[k][2]]

C22_SliceDurations ==
    C22_Case =>
        \A i \in DOMAIN eng.processes :
            LET p == eng.processes[i]
                q == last.arg
                d == Durations(StaticCore(i) + 1, p.id)
                n == Len(d)
            IN  /\ \A k \in 1..(n - 1) : d[k] = q
                /\ n > 0 => d[n] \in 1..q
                /\ Total(d) = p.burstTime - p.remainingTime
                /\ (n > 0 /\ d[n] < q) => p.remainingTime = 0
                /\ eng.pc = "idle" => n = (p.burstTime + q - 1) \div q

\* A run with quantum 2 on bursts 10, 5, 8, 3: the second process took the
\* slices 2, 2, 1.
C22_Witness ==
    /\ C22_Case
    /\ eng.pc = "idle"
    /\ last.arg = 2
    /\ Bursts(eng.processes) = <<10, 5, 8, 3>>
    /\ Durations(StaticCore(2) + 1, eng.processes[2].id) = <<2, 2, 1>>

(***************************************************************************)
(* C23: round-robin serves each core's queue in FIFO order and re-enqueues *)
(* at the back of the same core (ids distinct): in a core's timeline the   *)
(* first slices of its processes appear in insertion order, and between    *)
(* two consecutive slices of one process every other process of the core   *)
(* that is unfinished at the first of the two gets exactly one slice.      *)
(***************************************************************************)
C23_Case ==
    /\ last.op = "multiCoreRoundRobin"
    /\ eng.pc \in {"rr", "idle"}
    /\ DistinctIds(eng.processes)

\* The positions in timeline c of the slices of the process at position i.
Served(c, i) ==
    {k \in DOMAIN eng.ganttCharts[c] : eng.ganttCharts[c][k][1] = eng.processes[i].id}

\* The processes of core c - 1.
QueuedOn(c) == {i \in DOMAIN eng.processes : StaticCore(i) = c - 1}

UnfinishedAfter(c, i, k) ==
    \/ \E m \in Served(c, i) : m > k
    \/ eng.processes[i].remainingTime > 0

C23_FirstSlicesInOrder(c) ==
    \A i, j \in QueuedOn(c) :
        (i < j /\ Served(c, j) # {}) =>
            \E k \in Served(c, i) : \A m \in Served(c, j) : k < m

C23_OneSliceBetween(c) ==
    \A i, j \in QueuedOn(c) : \A k1, k2 \in Served(c, i) :
        (/\ i # j
         /\ k1 < k2
         /\ \A m \in Served(c, i) : ~(k1 < m /\ m < k2)
         /\ UnfinishedAfter(c, j, k1))
            => Cardinality({m \in Served(c, j) : k1 < m /\ m < k2}) = 1

C23_Fifo ==
    C23_Case =>
        \A c \in DOMAIN eng.ganttCharts :
            C23_FirstSlicesInOrder(c) /\ C23_OneSliceBetween(c)

\* Core 0 of two has served its two processes in turn, twice.
C23_Witness ==
    /\ C23_Case
    /\ eng.pc = "idle"
    /\ eng.numCores = 2
    /\ Len(eng.processes) = 3
    /\ Served(1, 1) = {1, 3}
    /\ Served(1, 3) = {2, 4}

(***************************************************************************)
(* C24: in round-robin (ids distinct) a process is finalized exactly once, *)
(* at the slice that brings its remainingTime to 0: until then it has      *)
(* coreId -1 and no times; from then on its fields stay as they are, its   *)
(* turnaroundTime is the sum of the slice durations of its core up to and  *)
(* including its last slice, and its waitingTime is that sum minus its     *)
(* burstTime and is not negative.                                          *)
(***************************************************************************)
C24_Case ==
    /\ last.op = "multiCoreRoundRobin"
    /\ eng.pc \in {"rr", "idle"}
    /\ DistinctIds(eng.processes)

Completed(i) ==
    Served(StaticCore(i) + 1, i) # {} /\ eng.processes[i].remainingTime = 0

LastSlice(c, i) == CHOOSE k \in Served(c, i) : \A m \in Served(c, i) : m <= k

C24_Finalized ==
    C24_Case =>
        \A i \in DOMAIN eng.processes :
            LET p == eng.processes[i]
                c == StaticCore(i) + 1
            IN  IF Completed(i)
                THEN /\ p.coreId = c - 1
                     /\ p.turnaroundTime = Busy(SubSeq(eng.ganttCharts[c], 1, LastSlice(c, i)))
                     /\ p.waitingTime = p.turnaroundTime - p.burstTime
                     /\ p.waitingTime >= 0
                ELSE /\ p.coreId = -1
                     /\ p.turnaroundTime = 0
                     /\ p.waitingTime = 0

C24_FinalizedOnce ==
    /\ []C24_Finalized
    /\ [][(C24_Case /\ eng.pc = "rr") =>
            \A i \in DOMAIN eng.processes :
                /\ eng.processes[i].coreId # -1 => eng'.processes[i] = eng.processes[i]
                /\ eng'.processes[i].coreId # eng.processes[i].coreId
                       => eng'.processes[i].remainingTime = 0]_vars

\* A process that took two slices, behind another process of its core, and
\* was finalized with a positive waiting time.
C24_Witness ==
    /\ C24_Case
    /\ eng.pc = "idle"
    /\ \E i \in DOMAIN eng.processes :
           /\ Cardinality(Served(StaticCore(i) + 1, i)) = 2
           /\ eng.processes[i].waitingTime > 0
           /\ eng.processes[i].turnaroundTime > eng.processes[i].burstTime
           /\ eng.processes[i].coreId = 0

(***************************************************************************)
(* C25: addProcess(p) only appends: the collection grows by one process at *)
(* the end, the processes it held keep all their fields, the timelines,    *)
(* the metrics and numCores stay as they were, and the new process has     *)
(* waitingTime 0, turnaroundTime 0, remainingTime = burstTime and coreId   *)
(* -1, also after a policy run.                                            *)
(***************************************************************************)
C25_Call == eng.pc = "idle" /\ last'.op = "addProcess"

C25_OnlyAppends ==
    [][C25_Call =>
          LET n == Len(eng.processes)
              p == eng'.processes[n + 1]
          IN  /\ eng'.pc = "idle"
              /\ Len(eng'.processes) = n + 1
              /\ SubSeq(eng'.processes, 1, n) = eng.processes
              /\ p.id = last'.arg
              /\ p.waitingTime = 0
              /\ p.turnaroundTime = 0
              /\ p.remainingTime = p.burstTime
              /\ p.coreId = -1
              /\ eng'.ganttCharts = eng.ganttCharts
              /\ eng'.metrics = eng.metrics
              /\ eng'.numCores = eng.numCores]_vars

\* A process has been added after a policy run: the first process and the
\* timelines still hold the results of the run.
C25_Witness ==
    /\ eng.pc = "idle"
    /\ last.op = "addProcess"
    /\ Len(eng.processes) = 2
    /\ eng.processes[1].coreId = 0
    /\ eng.processes[1].turnaroundTime > 0
    /\ eng.ganttCharts[1] # <<>>
    /\ eng.metrics.totalProcesses = 1
    /\ eng.processes[2].coreId = -1

(***************************************************************************)
(* C26: no step of a policy run changes the size or the order of the       *)
(* collection, the id, burstTime, priority, deadline, isRealTime or        *)
(* powerConsumption of a process, numCores or the number of per-core       *)
(* timelines; Priority and EDF leave the collection in insertion order.    *)
(***************************************************************************)
Facts(e) ==
    [processes |-> [i \in DOMAIN e.processes |->
                       [id |-> e.processes[i].id,
                        burstTime |-> e.processes[i].burstTime,
                        priority |-> e.processes[i].priority,
                        deadline |-> e.processes[i].deadline,
                        isRealTime |-> e.processes[i].isRealTime,
                        powerConsumption |-> e.processes[i].powerConsumption]],
     numCores |-> e.numCores,
     timelines |-> Len(e.ganttCharts)]

C26_Step ==
    /\ (eng.pc = "idle" /\ last'.op \in Policies) \/ InRun
    /\ eng'.pc # "aborted"

C26_FactsKept == [][C26_Step => Facts(eng') = Facts(eng)]_vars

\* A Priority run has returned on a collection whose insertion order is not
\* its priority order.
C26_Witness ==
    /\ Ran("priorityScheduling")
    /\ Len(eng.processes) = 3
    /\ eng.processes[1].priority > eng.processes[2].priority
    /\ eng.processes[2].coreId # -1
    /\ [i \in 1..3 |-> eng.processes[i].id] = <<1, 2, 3>>

(***************************************************************************)
(* C27: after a Priority or EDF run on a non-empty collection, whether or  *)
(* not two of its processes carry the same id, every process has been      *)
(* assigned exactly once: each has a coreId other than -1 and the          *)
(* timelines hold as many slices as there are processes.                   *)
(***************************************************************************)
C27_Case ==
    /\ eng.pc = "idle"
    /\ last.op \in {"priorityScheduling", "edfScheduling"}
    /\ eng.processes # <<>>

C27_EveryProcessAssigned ==
    C27_Case =>
        /\ \A i \in DOMAIN eng.processes : eng.processes[i].coreId # -1
        /\ Total([c \in DOMAIN eng.ganttCharts |-> Len(eng.ganttCharts[c])])
               = Len(eng.processes)

(***************************************************************************)
(* C28: a policy run that overlaps with addProcess or clearProcesses calls *)
(* of other threads works on one fixed collection from its reset to its    *)
(* metrics finalization: no step taken while the run is under way appends  *)
(* to the collection or clears it.                                         *)
(***************************************************************************)
C28_FixedCollection ==
    [][InRun => Facts(eng').processes = Facts(eng).processes]_vars

(***************************************************************************)
(* C29: after a FCFS, Priority or round-robin run metrics.deadlineMisses   *)
(* is 0; in particular the call of one of these policies on an engine that *)
(* holds the results of an EDF run with deadline misses brings the count   *)
(* back to 0, and it is 0 when the run has returned.                       *)
(***************************************************************************)
C29_Policies == {"multiCoreFCFS", "priorityScheduling", "multiCoreRoundRobin"}

C29_AfterEdfWithMisses ==
    Ran("edfScheduling") /\ eng.metrics.deadlineMisses > 0

C29_Call ==
    /\ C29_AfterEdfWithMisses
    /\ last'.op \in C29_Policies
    /\ Facts(eng') = Facts(eng)

C29_NoDeadlineMisses ==
    /\ [](RanPolicy /\ last.op \in C29_Policies => eng.metrics.deadlineMisses = 0)
    /\ [][C29_Call => eng'.metrics.deadlineMisses = 0]_vars

\* A FCFS, Priority or round-robin run has returned on an engine that held
\* the results of an earlier run, with a process whose deadline its
\* turnaround exceeds.
C29_Witness ==
    /\ RanPolicy
    /\ last.op \in C29_Policies
    /\ last.rerun
    /\ Missed(eng.processes) # {}
    /\ eng.metrics.deadlineMisses = 0

(***************************************************************************)
(* C30: the bound of greedy list scheduling.  After FCFS, Priority or EDF  *)
(* on a collection with distinct ids and positive bursts, numCores times   *)
(* the makespan is at most the sum of all bursts plus numCores - 1 times   *)
(* the largest burst; and at the moment a process is assigned, no core has *)
(* a busy time smaller than the waitingTime the process is given.          *)
(***************************************************************************)
C30_Policies == {"multiCoreFCFS", "priorityScheduling", "edfScheduling"}

C30_Collection(e) == DistinctIds(e.processes) /\ PositiveBursts(e.processes)

C30_Case == RanPolicy /\ last.op \in C30_Policies /\ C30_Collection(eng)

C30_LargestBurst ==
    IF eng.processes = <<>> THEN 0 ELSE Largest(Bursts(eng.processes))

C30_Bound ==
    eng.numCores * Makespan(eng.ganttCharts)
        <= Total(Bursts(eng.processes)) + (eng.numCores - 1) * C30_LargestBurst

\* A step of a greedy run that assigns a process.
C30_Step ==
    /\ eng.pc \in Greedy
    /\ InLoop(eng)
    /\ C30_Collection(eng)
    /\ eng'.pc # "aborted"

\* The position of the process whose slice the step has appended.
C30_Assigned(i) ==
    \E c \in DOMAIN eng.ganttCharts :
        /\ Assigns(c)
        /\ eng'.ganttCharts[c][Len(eng'.ganttCharts[c])][1] = eng.processes[i].id

C30_ListSchedulingBound ==
    /\ [](C30_Case => C30_Bound)
    /\ [][C30_Step =>
             \E i \in DOMAIN eng.processes :
                 /\ C30_Assigned(i)
                 /\ \A d \in DOMAIN eng.ganttCharts :
                        Busy(eng.ganttCharts[d]) >= eng'.processes[i].waitingTime]_vars

\* Three processes have run on two cores: the last one waited for the core
\* that was free first, and the bound is not trivial (the makespan exceeds
\* the largest burst).
C30_Witness ==
    /\ C30_Case
    /\ eng.numCores = 2
    /\ Len(eng.processes) = 3
    /\ Makespan(eng.ganttCharts) > C30_LargestBurst
    /\ \E i \in DOMAIN eng.processes : eng.processes[i].waitingTime > 0

(***************************************************************************)
(* C31: on a single core, a round-robin run with a quantum that is at      *)
(* least every burst (bursts positive) leaves the same coreId, waitingTime *)
(* and turnaroundTime in every process, the same timeline and the same     *)
(* metrics as a FCFS run on the same collection.                           *)
(***************************************************************************)
\* The engine when the run e is in has returned or crashed.
RECURSIVE RunToReturn(_)
RunToReturn(e) ==
    IF InLoop(e) \/ AtReturn(e) THEN RunToReturn(StepOf(e)) ELSE e

\* What a run leaves for its caller to display.
C31_Results(e) ==
    [processes |-> [i \in DOMAIN e.processes |->
                       [coreId |-> e.processes[i].coreId,
                        waitingTime |-> e.processes[i].waitingTime,
                        turnaroundTime |-> e.processes[i].turnaroundTime]],
     ganttCharts |-> e.ganttCharts,
     metrics |-> e.metrics]

C31_Case ==
    /\ Ran("multiCoreRoundRobin")
    /\ eng.numCores = 1
    /\ PositiveBursts(eng.processes)
    /\ \A i \in DOMAIN eng.processes : last.arg >= eng.processes[i].burstTime

C31_SameAsFCFS ==
    C31_Case => C31_Results(eng) = C31_Results(RunToReturn(multiCoreFCFS(eng)))

\* Two processes or more with different bursts, the later ones waiting, have
\* run in one slice each.
C31_Witness ==
    /\ C31_Case
    /\ Len(eng.processes) >= 2
    /\ \E i, j \in DOMAIN eng.processes :
           eng.processes[i].burstTime # eng.processes[j].burstTime
    /\ \E i \in DOMAIN eng.processes : eng.processes[i].waitingTime > 0
    /\ Len(eng.ganttCharts[1]) = Len(eng.processes)

(***************************************************************************)
(* C32: in every state that the options of main's menu reach, numCores is  *)
(* in 1..16, the engine holds exactly numCores timelines, the ids of the   *)
(* processes are 1..n in insertion order, and every core index a policy    *)
(* has computed is the index of a timeline: no run has crashed and every   *)
(* coreId is -1 or a core below numCores.                                  *)
(***************************************************************************)
C32_MenuInvariant ==
    /\ eng.numCores \in 1..16
    /\ Len(eng.ganttCharts) = eng.numCores
    /\ \A i \in DOMAIN eng.processes : eng.processes[i].id = i
    /\ eng.pc # "aborted"
    /\ \A i \in DOMAIN eng.processes :
           eng.processes[i].coreId \in -1..(eng.numCores - 1)
    /\ eng.pc = "rr" => DOMAIN eng.coreQueues = 1..eng.numCores

\* Option 7 has run its four policies on the six example processes after
\* option 8 had set two cores.
C32_Witness ==
    /\ eng.pc = "idle"
    /\ last.choice = 7
    /\ last.op = "multiCoreRoundRobin"
    /\ eng.numCores = 2
    /\ Len(eng.processes) = 6
    /\ \E i \in DOMAIN eng.processes : eng.processes[i].coreId = 1

====
